---- MODULE Spec2Model ----
(***************************************************************************)
(* GEAdrive Cross_Data fault analysis (GEALOC_demo.py).                    *)
(*                                                                         *)
(* The script is a Streamlit page: every widget change re-executes it from *)
(* the top in a fresh namespace.  One run reads the selected sheet of the  *)
(* uploaded workbook, normalises the Year column, filters by year, revenue *)
(* hours and fault code, splits the rows into false alarms and actual      *)
(* faults, and derives the summary table and the three chart tables.       *)
(*                                                                         *)
(* A cell of the sheet is <<>> when it is empty (NaN) and <<v>> otherwise. *)
(* Text is a string, except the fault code, which the script searches for  *)
(* a substring: it is a tuple of one-character strings.  A percentage is   *)
(* the number formatted with two decimals, held as hundredths of a percent *)
(* (1437 for "14.37%").  Drawing calls (st.table, ax.pie, sns.heatmap,     *)
(* sns.barplot) assign none of the script's tables and are not actions.    *)
(***************************************************************************)
EXTENDS Integers, Sequences, FiniteSets, TLC

VARIABLES
    uploaded_file,   \* rows of the selected sheet of the uploaded workbook
    tie_break,       \* order in which this build's sort leaves equal counts
    year_option,     \* the "Select Year" widget
    revenue_option,  \* the "Select Revenue Hours" widget
    pc,              \* the section of the script that runs next
    df,
    total_reports,
    df_false,
    df_actual,
    false_count,
    actual_count,
    summary_data,
    gealoc_counts,
    pivot,
    heatmap_data,
    cause_counts,
    top5_causes

vars == <<uploaded_file, tie_break, year_option, revenue_option, pc, df,
          total_reports, df_false, df_actual, false_count, actual_count,
          summary_data, gealoc_counts, pivot, heatmap_data, cause_counts,
          top5_causes>>

outputs == <<df, total_reports, df_false, df_actual, false_count, actual_count,
             summary_data, gealoc_counts, pivot, heatmap_data, cause_counts,
             top5_causes>>

----------------------------------------------------------------------------
(* Bounds of the model.                                                    *)

\* rows of an uploaded sheet in the filter and whole-script specifications
MaxRows == 2
\* rows of a filtered frame in the location-distribution specification
MaxPieRows == 4
\* rows of a filtered frame in the co-occurrence specification
MaxHeatRows == 6
\* rows of a filtered frame in the ranked-causes specification
MaxCauseRows == 6
\* rows of a filtered frame in the summary specification
MaxReports == 160

----------------------------------------------------------------------------
(* Cells, text and sequences.                                              *)

NaN == <<>>

isna(cell) == cell = NaN

notna(cell) == cell # NaN

Range(s) == {s[i] : i \in 1..Len(s)}

RECURSIVE SeqsUpTo(_, _)
\* every sequence over S of length at most n
SeqsUpTo(S, n) ==
    IF n = 0 THEN {<<>>}
    ELSE LET shorter == SeqsUpTo(S, n - 1)
         IN  shorter \cup {Append(s, x) : s \in {t \in shorter : Len(t) = n - 1}, x \in S}

RECURSIVE Perms(_)
\* every arrangement of the finite set S as a sequence
Perms(S) ==
    IF S = {} THEN {<<>>}
    ELSE UNION {{<<x>> \o p : p \in Perms(S \ {x})} : x \in S}

\* position of v in the sequence s (0 when absent)
IndexOf(v, s) ==
    IF v \in Range(s) THEN CHOOSE i \in 1..Len(s) : s[i] = v /\ \A j \in 1..(i - 1) : s[j] # v
    ELSE 0

\* number of positions of s holding v
Occurrences(v, s) == Cardinality({i \in 1..Len(s) : s[i] = v})

\* the column of a frame, as the sequence of its cells
Column(frame, name) == [i \in 1..Len(frame) |-> frame[i][name]]

----------------------------------------------------------------------------
(* Widgets.                                                                *)

\* st.selectbox("Select Year", ["Total", 2023, 2024, 2025]); `year` is int(option)
YearOptions ==
    <<[label |-> "Total", year |-> 0],
      [label |-> "2023", year |-> 2023],
      [label |-> "2024", year |-> 2024],
      [label |-> "2025", year |-> 2025]>>

\* st.selectbox("Select Revenue Hours", ["Total", "Yes", "No"])
RevenueOptions == <<"Total", "Yes", "No">>

\* the substring the fault-code filter looks for: "Cross_Data"
FaultPattern == <<"C", "r", "o", "s", "s", "_", "D", "a", "t", "a">>

----------------------------------------------------------------------------
(* Reading and normalising.                                                *)

\* pd.read_excel(uploaded_file, sheet_name=selected_sheet, header=1), with the
\* column names stripped: the rows of the sheet, in order
read_excel(file) == file

\* pd.to_datetime(cell, errors='coerce').dt.year: a date gives its year, a
\* bare number is taken as nanoseconds since the epoch, anything else is NaT
to_datetime_year(cell) ==
    CASE cell.kind = "date"   -> <<cell.year>>
      [] cell.kind = "number" -> <<1970>>
      [] OTHER                -> NaN

\* the normalisation followed by a dropna() on the Year column
NormalizeYearDropna(frame) ==
    SelectSeq([i \in 1..Len(frame) |-> [frame[i] EXCEPT !.Year = to_datetime_year(frame[i].Year)]],
              LAMBDA row : notna(row.Year))

\* df['Year'] = pd.to_datetime(df['Year'], errors='coerce').dt.year
NormalizeYearColumn(frame) ==
    [i \in 1..Len(frame) |-> [frame[i] EXCEPT !.Year = to_datetime_year(frame[i].Year)]]

----------------------------------------------------------------------------
(* Filters.                                                                *)

\* df['Year'] == int(year_option): NaN equals nothing
YearMatches(row, option) == row.Year = <<option.year>>

\* the year filter with its mask shifted by one row against the frame
YearFilterShifted(frame, option) ==
    IF option.label # "Total"
    THEN LET kept == {i \in 2..Len(frame) : YearMatches(frame[i - 1], option)}
         IN  [k \in 1..Cardinality(kept) |->
                 frame[CHOOSE i \in kept : Cardinality({j \in kept : j < i}) = k - 1]]
    ELSE frame

\* if year_option != "Total": df = df[df['Year'] == int(year_option)]
YearFilter(frame, option) ==
    IF option.label # "Total"
    THEN SelectSeq(frame, LAMBDA row : YearMatches(row, option))
    ELSE frame

\* df['Revenue hours'] == revenue_option: NaN equals nothing
RevenueMatches(row, option) == row.Revenue_hours = <<option>>

\* the revenue-hours filter with != for ==
RevenueFilterInverted(frame, option) ==
    IF option # "Total"
    THEN SelectSeq(frame, LAMBDA row : ~RevenueMatches(row, option))
    ELSE frame

\* if revenue_option != "Total": df = df[df['Revenue hours'] == revenue_option]
RevenueFilter(frame, option) ==
    IF option # "Total"
    THEN SelectSeq(frame, LAMBDA row : RevenueMatches(row, option))
    ELSE frame

\* str.contains(pattern, case=True, na=False) on one cell
str_contains(cell, pattern) ==
    /\ notna(cell)
    /\ \E i \in 1..(Len(cell[1]) - Len(pattern) + 1) :
           SubSeq(cell[1], i, i + Len(pattern) - 1) = pattern

\* df = df[df['Fault Code'].str.contains("Cross_Data", case=True, na=False)]
FaultCodeFilter(frame) ==
    SelectSeq(frame, LAMBDA row : str_contains(row.Fault_Code, FaultPattern))

----------------------------------------------------------------------------
(* Classification.                                                         *)

\* df_false = df[df['Comment'].isna()]
FalseAlarms(frame) == SelectSeq(frame, LAMBDA row : isna(row.Comment))

\* the split on the wrong column: df[df['GEALOC'].notna()]
ActualFaultsByLocation(frame) == SelectSeq(frame, LAMBDA row : notna(row.GEALOC))

\* df_actual = df[df['Comment'].notna()]
ActualFaults(frame) == SelectSeq(frame, LAMBDA row : notna(row.Comment))

----------------------------------------------------------------------------
(* Floating point.  count / total and the product with 100 are IEEE 754    *)
(* doubles: 53 significant bits, round to nearest, ties to even.  A double *)
(* is [sig |-> its 53 bits, most significant first, exp |-> e], standing   *)
(* for sig * 2^e; zero has no bits.                                        *)

SignificandBits == 53

Zero == [sig |-> <<>>, exp |-> 0]

Front(s) == SubSeq(s, 1, Len(s) - 1)

Last(s) == s[Len(s)]

\* the bits of v in a field of `width` bits, most significant first
BitsOf(v, width) == [i \in 1..width |-> (v \div 2^(width - i)) % 2]

\* the bits of a natural number below 2^30, without leading zeros
BinaryOf(n) ==
    IF n = 0 THEN <<>>
    ELSE BitsOf(n, CHOOSE w \in 1..30 : 2^(w - 1) <= n /\ n < 2^w)

RECURSIVE ValueOf(_)
\* the natural number a run of at most 30 bits stands for
ValueOf(bits) ==
    IF bits = <<>> THEN 0
    ELSE IF Len(bits) = 1 THEN bits[1]
    ELSE LET h == Len(bits) \div 2
         IN  ValueOf(SubSeq(bits, 1, h)) * 2^(Len(bits) - h)
               + ValueOf(SubSeq(bits, h + 1, Len(bits)))

\* bits + 1: the carry runs up to the last 0
Increment(bits) ==
    IF \A i \in 1..Len(bits) : bits[i] = 1
    THEN <<1>> \o [i \in 1..Len(bits) |-> 0]
    ELSE LET z == CHOOSE i \in 1..Len(bits) :
                      bits[i] = 0 /\ \A j \in (i + 1)..Len(bits) : bits[j] = 1
         IN  [i \in 1..Len(bits) |-> IF i < z THEN bits[i] ELSE IF i = z THEN 1 ELSE 0]

RECURSIVE Pow2Mod(_, _)
\* 2^i modulo n, by repeated squaring
Pow2Mod(i, n) ==
    IF i = 0 THEN 1 % n
    ELSE LET h  == Pow2Mod(i \div 2, n)
             sq == (h * h) % n
         IN  IF i % 2 = 1 THEN (2 * sq) % n ELSE sq

\* what is left of r / n after `count` bits of its binary expansion
RemainderAfter(r, n, count) == (r * Pow2Mod(count, n)) % n

\* the next `count` bits of the binary expansion of r / n, for 0 <= r < n
QuotientBits(r, n, count) ==
    [i \in 1..count |-> IF 2 * RemainderAfter(r, n, i - 1) >= n THEN 1 ELSE 0]

RECURSIVE TimesSmall(_, _, _)
\* bits * factor + carry, for a factor below 2^10, 20 bits at a time
TimesSmall(bits, factor, carry) ==
    IF Len(bits) <= 20 THEN BinaryOf(ValueOf(bits) * factor + carry)
    ELSE LET cut == Len(bits) - 20
             t   == ValueOf(SubSeq(bits, cut + 1, Len(bits))) * factor + carry
         IN  TimesSmall(SubSeq(bits, 1, cut), factor, t \div 2^20)
               \o BitsOf(t % 2^20, 20)

\* the double nearest to bits * 2^exp (+ a little more when `sticky`), where
\* bits starts with 1 and is longer than a significand
RoundToDouble(bits, exp, sticky) ==
    LET kept  == SubSeq(bits, 1, SignificandBits)
        guard == bits[SignificandBits + 1]
        rest  == sticky \/ \E i \in (SignificandBits + 2)..Len(bits) : bits[i] = 1
        e     == exp + Len(bits) - SignificandBits
        up    == guard = 1 /\ (rest \/ Last(kept) = 1)
        sum   == Increment(kept)
    IN  IF ~up THEN [sig |-> kept, exp |-> e]
        ELSE IF Len(sum) > SignificandBits THEN [sig |-> Front(sum), exp |-> e + 1]
        ELSE [sig |-> sum, exp |-> e]

\* Python's count / total for integers 0 <= count <= total, total > 0
true_divide(count, total) ==
    IF count = 0 THEN Zero
    ELSE LET z  == CHOOSE k \in 0..31 : count * 2^k >= total /\ \A j \in 0..(k - 1) : count * 2^j < total
             r0 == count * 2^z - total
         IN  RoundToDouble(<<1>> \o QuotientBits(r0, total, SignificandBits),
                           -z - SignificandBits,
                           RemainderAfter(r0, total, SignificandBits) # 0)

\* x * factor for a double x and a small integer factor >= 2
multiply(x, factor) ==
    IF x = Zero THEN Zero
    ELSE RoundToDouble(TimesSmall(x.sig, factor, 0), x.exp, FALSE)

\* f"{x:.2f}" for a double 0 <= x < 2^52, as hundredths: the exact value of x
\* rounded to two decimals, ties to even
format_2f(x) ==
    IF x = Zero THEN 0
    ELSE LET bits    == TimesSmall(x.sig, 100, 0)
             fracLen == -x.exp
             whole   == ValueOf(SubSeq(bits, 1, Len(bits) - fracLen))
             half    == fracLen <= Len(bits) /\ bits[Len(bits) - fracLen + 1] = 1
             rest    == \E i \in 1..Len(bits) : i > Len(bits) - fracLen + 1 /\ bits[i] = 1
         IN  IF half /\ (rest \/ whole % 2 = 1) THEN whole + 1 ELSE whole

\* f"{(count / total_reports) * 100:.2f}%" if total_reports else "0.00%"
Percentage(count, total) ==
    IF total # 0 THEN format_2f(multiply(true_divide(count, total), 100)) ELSE 0

\* summary_data
SummaryData(total, falses, actuals) ==
    [Total_Cross_Data_Reports |-> total,
     False_Alarms             |-> falses,
     False_Alarm_pct          |-> Percentage(falses, total),
     Actual_Faults            |-> actuals,
     Actual_Fault_pct         |-> Percentage(actuals, total)]

----------------------------------------------------------------------------
(* Chart tables.                                                           *)

\* rows a (GEALOC, Comment) pair needs to stay in the pivot: pivot['Count'] >= 5
MinSupport == 5

\* cause_counts.head(5)
TopN == 5

\* the text values of the model, in the order Python compares strings
Alphabet == <<"A", "B", "U", "V", "W", "X", "Y", "Z">>

TextLess(a, b) == IndexOf(a, Alphabet) < IndexOf(b, Alphabet)

\* the elements of S in the order of the strict total order `before`, a set of
\* pairs <<earlier, later>>
Arranged(S, before) ==
    [i \in 1..Cardinality(S) |->
        CHOOSE v \in S : Cardinality({w \in S : <<w, v>> \in before}) = i - 1]

\* value_counts(ascending=True): smallest count first
value_counts_ascending(series, order) ==
    LET present    == {series[i][1] : i \in {j \in 1..Len(series) : notna(series[j])}}
        count(v)   == Occurrences(<<v>>, series)
        before     == {p \in present \X present :
                           \/ count(p[1]) < count(p[2])
                           \/ count(p[1]) = count(p[2]) /\ IndexOf(p[1], order) < IndexOf(p[2], order)}
        ranked     == Arranged(present, before)
    IN  [i \in 1..Len(ranked) |-> [value |-> ranked[i], Count |-> count(ranked[i])]]

\* value_counts(sort=False): the counts are not sorted
value_counts_unsorted(series, order) ==
    LET present    == {series[i][1] : i \in {j \in 1..Len(series) : notna(series[j])}}
        count(v)   == Occurrences(<<v>>, series)
        before     == {p \in present \X present : IndexOf(p[1], order) < IndexOf(p[2], order)}
        ranked     == Arranged(present, before)
    IN  [i \in 1..Len(ranked) |-> [value |-> ranked[i], Count |-> count(ranked[i])]]

\* series.value_counts(): the values of the column without NaN, each with the
\* number of its cells, largest count first; equal counts stand in the order
\* the sort of this build leaves them in
value_counts(series, order) ==
    LET present    == {series[i][1] : i \in {j \in 1..Len(series) : notna(series[j])}}
        count(v)   == Occurrences(<<v>>, series)
        before     == {p \in present \X present :
                           \/ count(p[1]) > count(p[2])
                           \/ count(p[1]) = count(p[2]) /\ IndexOf(p[1], order) < IndexOf(p[2], order)}
        ranked     == Arranged(present, before)
    IN  [i \in 1..Len(ranked) |-> [value |-> ranked[i], Count |-> count(ranked[i])]]

\* df_actual['GEALOC'].value_counts().reset_index(), columns ['GEALOC', 'Count']
GealocCounts(frame, order) ==
    LET counts == value_counts(Column(frame, "GEALOC"), order)
    IN  [i \in 1..Len(counts) |-> [GEALOC |-> counts[i].value, Count |-> counts[i].Count]]

\* heatmap_df.groupby(['GEALOC', 'Comment']).size().reset_index(name='Count'):
\* one row per pair of values, in key order; a row with NaN in a key is in no group
GroupSizes(frame) ==
    LET keyed  == {i \in 1..Len(frame) : notna(frame[i].GEALOC) /\ notna(frame[i].Comment)}
        keys   == {<<frame[i].GEALOC[1], frame[i].Comment[1]>> : i \in keyed}
        size(k) == Cardinality({i \in keyed : <<frame[i].GEALOC[1], frame[i].Comment[1]>> = k})
        before == {p \in keys \X keys :
                       \/ TextLess(p[1][1], p[2][1])
                       \/ p[1][1] = p[2][1] /\ TextLess(p[1][2], p[2][2])}
        sorted == Arranged(keys, before)
    IN  [i \in 1..Len(sorted) |->
            [GEALOC |-> sorted[i][1], Comment |-> sorted[i][2], Count |-> size(sorted[i])]]

\* pivot = pivot[pivot['Count'] >= 5]
Pivot(frame) == SelectSeq(GroupSizes(frame), LAMBDA row : row.Count >= MinSupport)

\* pivot.pivot(index='GEALOC', columns='Comment', values='Count').fillna(0)
HeatmapData(table) ==
    [cell \in {table[i].GEALOC : i \in 1..Len(table)} \X {table[i].Comment : i \in 1..Len(table)} |->
        IF \E i \in 1..Len(table) : table[i].GEALOC = cell[1] /\ table[i].Comment = cell[2]
        THEN (CHOOSE row \in Range(table) : row.GEALOC = cell[1] /\ row.Comment = cell[2]).Count
        ELSE 0]

\* df_actual['Comment'].value_counts().reset_index(), columns ['Cause', 'Count']
CauseCounts(frame, order) ==
    LET counts == value_counts(Column(frame, "Comment"), order)
    IN  [i \in 1..Len(counts) |-> [Cause |-> counts[i].value, Count |-> counts[i].Count]]

\* frame.head(n)
head(frame, n) == SubSeq(frame, 1, IF Len(frame) < n THEN Len(frame) ELSE n)

----------------------------------------------------------------------------
(* The script, section by section.                                         *)

\* a name of the script no section has assigned yet
NoFrame == <<>>

NoSummary == SummaryData(0, 0, 0)

NoMatrix == HeatmapData(<<>>)

\* lines 22-25: read the selected sheet
ReadSheet ==
    /\ pc = "read"
    /\ df' = read_excel(uploaded_file)
    /\ pc' = "normalize"
    /\ UNCHANGED <<uploaded_file, tie_break, year_option, revenue_option,
                   total_reports, df_false, df_actual, false_count, actual_count,
                   summary_data, gealoc_counts, pivot, heatmap_data, cause_counts,
                   top5_causes>>

\* lines 27-28: normalise the Year column
NormalizeYear ==
    /\ pc = "normalize"
    /\ df' = NormalizeYearColumn(df)
    /\ pc' = "year_filter"
    /\ UNCHANGED <<uploaded_file, tie_break, year_option, revenue_option,
                   total_reports, df_false, df_actual, false_count, actual_count,
                   summary_data, gealoc_counts, pivot, heatmap_data, cause_counts,
                   top5_causes>>

\* lines 37-39
ApplyYearFilter ==
    /\ pc = "year_filter"
    /\ df' = YearFilter(df, year_option)
    /\ pc' = "revenue_filter"
    /\ UNCHANGED <<uploaded_file, tie_break, year_option, revenue_option,
                   total_reports, df_false, df_actual, false_count, actual_count,
                   summary_data, gealoc_counts, pivot, heatmap_data, cause_counts,
                   top5_causes>>

\* lines 41-43
ApplyRevenueFilter ==
    /\ pc = "revenue_filter"
    /\ df' = RevenueFilter(df, revenue_option)
    /\ pc' = "fault_filter"
    /\ UNCHANGED <<uploaded_file, tie_break, year_option, revenue_option,
                   total_reports, df_false, df_actual, false_count, actual_count,
                   summary_data, gealoc_counts, pivot, heatmap_data, cause_counts,
                   top5_causes>>

\* lines 45-46
ApplyFaultCodeFilter ==
    /\ pc = "fault_filter"
    /\ df' = FaultCodeFilter(df)
    /\ pc' = "split"
    /\ UNCHANGED <<uploaded_file, tie_break, year_option, revenue_option,
                   total_reports, df_false, df_actual, false_count, actual_count,
                   summary_data, gealoc_counts, pivot, heatmap_data, cause_counts,
                   top5_causes>>

\* lines 48-56: count the reports and split them
Split ==
    /\ pc = "split"
    /\ total_reports' = Len(df)
    /\ df_false' = FalseAlarms(df)
    /\ df_actual' = ActualFaults(df)
    /\ false_count' = Len(df_false')
    /\ actual_count' = Len(df_actual')
    /\ pc' = "summary"
    /\ UNCHANGED <<uploaded_file, tie_break, year_option, revenue_option, df,
                   summary_data, gealoc_counts, pivot, heatmap_data, cause_counts,
                   top5_causes>>

\* lines 58-67
SummaryTable ==
    /\ pc = "summary"
    /\ summary_data' = SummaryData(total_reports, false_count, actual_count)
    /\ pc' = "pie"
    /\ UNCHANGED <<uploaded_file, tie_break, year_option, revenue_option, df,
                   total_reports, df_false, df_actual, false_count, actual_count,
                   gealoc_counts, pivot, heatmap_data, cause_counts, top5_causes>>

\* lines 73-86
PieChart ==
    /\ pc = "pie"
    /\ gealoc_counts' = GealocCounts(df_actual, tie_break.GEALOC)
    /\ pc' = "heatmap"
    /\ UNCHANGED <<uploaded_file, tie_break, year_option, revenue_option, df,
                   total_reports, df_false, df_actual, false_count, actual_count,
                   summary_data, pivot, heatmap_data, cause_counts, top5_causes>>

\* lines 88-100
Heatmap ==
    /\ pc = "heatmap"
    /\ pivot' = Pivot(df_actual)
    /\ heatmap_data' = HeatmapData(pivot')
    /\ pc' = "top5"
    /\ UNCHANGED <<uploaded_file, tie_break, year_option, revenue_option, df,
                   total_reports, df_false, df_actual, false_count, actual_count,
                   summary_data, gealoc_counts, cause_counts, top5_causes>>

\* lines 102-127
TopCauses ==
    /\ pc = "top5"
    /\ cause_counts' = CauseCounts(df_actual, tie_break.Comment)
    /\ top5_causes' = head(cause_counts', TopN)
    /\ pc' = "done"
    /\ UNCHANGED <<uploaded_file, tie_break, year_option, revenue_option, df,
                   total_reports, df_false, df_actual, false_count, actual_count,
                   summary_data, gealoc_counts, pivot, heatmap_data>>

\* no section of the script has run
Unassigned ==
    /\ df = NoFrame
    /\ total_reports = 0
    /\ df_false = NoFrame
    /\ df_actual = NoFrame
    /\ false_count = 0
    /\ actual_count = 0
    /\ summary_data = NoSummary
    /\ gealoc_counts = NoFrame
    /\ pivot = NoFrame
    /\ heatmap_data = NoMatrix
    /\ cause_counts = NoFrame
    /\ top5_causes = NoFrame

\* a rerun that keeps the frame of the run before it and filters that
RerunOnKeptFrame ==
    /\ \/ /\ year_option' \in Range(YearOptions) \ {year_option}
          /\ revenue_option' = revenue_option
       \/ /\ revenue_option' \in Range(RevenueOptions) \ {revenue_option}
          /\ year_option' = year_option
    /\ pc' = (IF pc = "done" THEN "year_filter" ELSE "read")
    /\ UNCHANGED <<uploaded_file, tie_break, df, total_reports, df_false, df_actual,
                   false_count, actual_count, summary_data, gealoc_counts, pivot,
                   heatmap_data, cause_counts, top5_causes>>

\* the user picks another year or another revenue-hours value: Streamlit runs
\* the script again from the top, in a fresh namespace
Rerun ==
    /\ \/ /\ year_option' \in Range(YearOptions) \ {year_option}
          /\ revenue_option' = revenue_option
       \/ /\ revenue_option' \in Range(RevenueOptions) \ {revenue_option}
          /\ year_option' = year_option
    /\ pc' = "read"
    /\ df' = NoFrame
    /\ total_reports' = 0
    /\ df_false' = NoFrame
    /\ df_actual' = NoFrame
    /\ false_count' = 0
    /\ actual_count' = 0
    /\ summary_data' = NoSummary
    /\ gealoc_counts' = NoFrame
    /\ pivot' = NoFrame
    /\ heatmap_data' = NoMatrix
    /\ cause_counts' = NoFrame
    /\ top5_causes' = NoFrame
    /\ UNCHANGED <<uploaded_file, tie_break>>

----------------------------------------------------------------------------
(* Sheets.                                                                 *)

Date(y) == [kind |-> "date", year |-> y]

Text == [kind |-> "text", year |-> 0]

Number(n) == [kind |-> "number", year |-> n]

\* a fault code holding the pattern, one holding it in lower case
CrossDataCode == <<"T", "_">> \o FaultPattern \o <<"1">>

LowerCaseCode == <<"c", "r", "o", "s", "s", "_", "d", "a", "t", "a">>

Rows(years, revenues, codes, locations, comments) ==
    [Year : years, Revenue_hours : revenues, Fault_Code : codes,
     GEALOC : locations, Comment : comments]

\* rows of the sheets of the whole-script specification
SheetRows ==
    Rows({Date(2023), Date(2024), Text}, {<<"Yes">>, <<"No">>}, {<<CrossDataCode>>},
         {<<"A">>}, {<<"X">>, NaN})

\* rows of the sheets of the filter specification
FilterRows ==
    Rows({Date(2023), Date(2024), Number(2024), Text}, {<<"Yes">>, <<"No">>, NaN},
         {<<CrossDataCode>>, <<LowerCaseCode>>, NaN}, {<<"A">>}, {<<"X">>})

\* rows of a filtered frame: the year is normalised, the fault code matches
FilteredRows(locations, comments) ==
    Rows({<<2024>>}, {<<"Yes">>}, {<<CrossDataCode>>}, locations, comments)

\* a sheet that reads and normalises to `frame`
SheetOf(frame) ==
    [i \in 1..Len(frame) |-> [frame[i] EXCEPT !.Year = Date(frame[i].Year[1])]]

\* the values of a column
ValuesOf(frame, name) == {frame[i][name][1] : i \in {j \in 1..Len(frame) : notna(frame[j][name])}}

\* the orders this build's sort may leave equal counts in, for the values of a sheet
TieOrders(sheet) ==
    [GEALOC : Perms(ValuesOf(sheet, "GEALOC")), Comment : Perms(ValuesOf(sheet, "Comment"))]

----------------------------------------------------------------------------
(* Specifications.                                                         *)

\* a sheet has been uploaded and the script is about to run
Uploaded(sheets) ==
    /\ uploaded_file \in sheets
    /\ tie_break \in TieOrders(uploaded_file)
    /\ pc = "read"
    /\ Unassigned

\* the script has run down to the split, on a sheet that filters to one of `frames`
Filtered(frames) ==
    /\ df \in frames
    /\ uploaded_file = SheetOf(df)
    /\ tie_break \in TieOrders(uploaded_file)
    /\ year_option = YearOptions[1]
    /\ revenue_option = RevenueOptions[1]
    /\ pc = "split"
    /\ total_reports = 0
    /\ df_false = NoFrame
    /\ df_actual = NoFrame
    /\ false_count = 0
    /\ actual_count = 0
    /\ summary_data = NoSummary
    /\ gealoc_counts = NoFrame
    /\ pivot = NoFrame
    /\ heatmap_data = NoMatrix
    /\ cause_counts = NoFrame
    /\ top5_causes = NoFrame

\* the sections that load and filter
NextFilter ==
    \/ ReadSheet
    \/ NormalizeYear
    \/ ApplyYearFilter
    \/ ApplyRevenueFilter
    \/ ApplyFaultCodeFilter

\* the sections that classify and aggregate
NextAnalysis ==
    \/ Split
    \/ SummaryTable
    \/ PieChart
    \/ Heatmap
    \/ TopCauses

\* the sections up to the summary table
NextSummary ==
    \/ Split
    \/ SummaryTable

Next ==
    \/ ReadSheet
    \/ NormalizeYear
    \/ ApplyYearFilter
    \/ ApplyRevenueFilter
    \/ ApplyFaultCodeFilter
    \/ Split
    \/ SummaryTable
    \/ PieChart
    \/ Heatmap
    \/ TopCauses
    \/ Rerun

\* the page: the first run has both widgets on "Total"
Init ==
    /\ Uploaded(SeqsUpTo(SheetRows, MaxRows))
    /\ year_option = YearOptions[1]
    /\ revenue_option = RevenueOptions[1]

Spec == Init /\ [][Next]_vars

\* loading and filtering, for every choice of the widgets
InitFilter ==
    /\ Uploaded(SeqsUpTo(FilterRows, MaxRows))
    /\ year_option \in Range(YearOptions)
    /\ revenue_option \in Range(RevenueOptions)

SpecFilter == InitFilter /\ [][NextFilter]_vars

\* classification and the location distribution: frames with empty locations
\* and empty comments
LocationRows == FilteredRows({<<"A">>, <<"B">>, NaN}, {<<"X">>, NaN})

InitLocations == Filtered(SeqsUpTo(LocationRows, MaxPieRows))

SpecLocations == InitLocations /\ [][NextAnalysis]_vars

\* the co-occurrence table: frames of commented rows, long enough for a pair
\* to reach the minimum support beside another pair
PairRows ==
    {row \in FilteredRows({<<"A">>, <<"B">>, NaN}, {<<"X">>, <<"Y">>}) :
        <<row.GEALOC, row.Comment>> \in
            {<< <<"A">>, <<"X">> >>, << <<"A">>, <<"Y">> >>,
             << <<"B">>, <<"X">> >>, << NaN, <<"X">> >>}}

InitPairs == Filtered(SeqsUpTo(PairRows, MaxHeatRows))

SpecPairs == InitPairs /\ [][NextAnalysis]_vars

\* the causes of the ranked-causes specification: one more than head(5) keeps
CauseNames == <<"U", "V", "W", "X", "Y", "Z">>

CauseRow(name) ==
    [Year |-> <<2024>>, Revenue_hours |-> <<"Yes">>, Fault_Code |-> <<CrossDataCode>>,
     GEALOC |-> <<"A">>, Comment |-> <<name>>]

RECURSIVE CauseFrames(_)
\* the frames of at most n commented rows, up to the names of the causes: the
\* script compares comments for equality only, so the k-th distinct comment of
\* a frame is taken to be the k-th name
CauseFrames(n) ==
    IF n = 0 THEN {<<>>}
    ELSE LET shorter == CauseFrames(n - 1)
             seen(f) == Cardinality(ValuesOf(f, "Comment"))
             open(f) == 1..(IF seen(f) < Len(CauseNames) THEN seen(f) + 1 ELSE seen(f))
         IN  shorter \cup
             UNION {{Append(f, CauseRow(CauseNames[k])) : k \in open(f)} :
                        f \in {g \in shorter : Len(g) = n - 1}}

InitCauses == Filtered(CauseFrames(MaxCauseRows))

SpecCauses == InitCauses /\ [][NextAnalysis]_vars

\* the summary table: the percentages depend on the two counts only, so a
\* frame is `falses` rows without a comment followed by `actuals` rows with one
CountedFrame(falses, actuals) ==
    [i \in 1..(falses + actuals) |->
        [Year |-> <<2024>>, Revenue_hours |-> <<"Yes">>, Fault_Code |-> <<CrossDataCode>>,
         GEALOC |-> <<"A">>, Comment |-> IF i <= falses THEN NaN ELSE <<"X">>]]

InitSummary ==
    Filtered(UNION {{CountedFrame(f, t - f) : f \in 0..t} : t \in 0..MaxReports})

SpecSummary == InitSummary /\ [][NextSummary]_vars

----------------------------------------------------------------------------
(* Properties of the filters (SpecFilter).                                 *)

\* the frame the filters start from
Normalized == NormalizeYearColumn(read_excel(uploaded_file))

RECURSIVE IsSubsequence(_, _)
\* s is t with some rows left out
IsSubsequence(s, t) ==
    IF s = <<>> THEN TRUE
    ELSE IF t = <<>> THEN FALSE
    ELSE IF Head(s) = Head(t) THEN IsSubsequence(Tail(s), Tail(t))
    ELSE IsSubsequence(s, Tail(t))

\* C2: the filtered frame holds only rows of the frame the filters were given,
\* none twice over, and filtering it again with the same selections changes
\* nothing.
FilterIsIdempotentSubset ==
    pc = "split" =>
        /\ IsSubsequence(df, Normalized)
        /\ \A row \in Range(df) : Occurrences(row, df) <= Occurrences(row, Normalized)
        /\ FaultCodeFilter(RevenueFilter(YearFilter(df, year_option), revenue_option)) = df

\* a run in which both selections are specific and the filters kept some rows
\* and dropped others
FilterKeptSomeRows ==
    /\ pc = "split"
    /\ year_option.label # "Total"
    /\ revenue_option # "Total"
    /\ Len(df) = 1
    /\ Len(uploaded_file) = 2

\* one of the three filters, by name
FilterNamed(name, frame) ==
    CASE name = "year"    -> YearFilter(frame, year_option)
      [] name = "revenue" -> RevenueFilter(frame, revenue_option)
      [] name = "fault"   -> FaultCodeFilter(frame)

\* the three filters applied in the given order
FiltersInOrder(order, frame) ==
    FilterNamed(order[3], FilterNamed(order[2], FilterNamed(order[1], frame)))

\* the row passes every active selection
PassesAll(row) ==
    /\ year_option.label = "Total" \/ (notna(row.Year) /\ row.Year[1] = year_option.year)
    /\ revenue_option = "Total" \/ (notna(row.Revenue_hours) /\ row.Revenue_hours[1] = revenue_option)
    /\ notna(row.Fault_Code)
    /\ \E i \in 1..Len(row.Fault_Code[1]), j \in 1..Len(row.Fault_Code[1]) :
           SubSeq(row.Fault_Code[1], i, j) = FaultPattern

\* C3: the three filters are a conjunction: in each of their six orders they
\* give the frame the script computes, which holds exactly the rows that pass
\* every active selection.
FiltersAreAConjunction ==
    pc = "split" =>
        /\ \A order \in Perms({"year", "revenue", "fault"}) : FiltersInOrder(order, Normalized) = df
        /\ IsSubsequence(df, Normalized)
        /\ \A row \in Range(Normalized) :
               Occurrences(row, df) = IF PassesAll(row) THEN Occurrences(row, Normalized) ELSE 0

\* a run in which each of the three filters, applied alone, drops a row
EachFilterDropsARow ==
    /\ pc = "split"
    /\ year_option.label # "Total"
    /\ revenue_option # "Total"
    /\ Len(YearFilter(Normalized, year_option)) < Len(Normalized)
    /\ Len(RevenueFilter(Normalized, revenue_option)) < Len(Normalized)
    /\ Len(FaultCodeFilter(Normalized)) < Len(Normalized)

\* C7: normalising drops no row and leaves an unparsable year empty; a specific
\* year keeps exactly the rows of that year, so none with an empty year; "Total"
\* keeps every row.
YearFilterKeepsExactlyTheYear ==
    pc = "revenue_filter" =>
        /\ Len(Normalized) = Len(uploaded_file)
        /\ \A i \in 1..Len(uploaded_file) :
               uploaded_file[i].Year.kind = "text" => isna(Normalized[i].Year)
        /\ IsSubsequence(df, Normalized)
        /\ year_option.label # "Total" =>
               \A row \in Range(Normalized) :
                   Occurrences(row, df) =
                       IF row.Year = <<year_option.year>> THEN Occurrences(row, Normalized) ELSE 0
        /\ year_option.label = "Total" => df = Normalized

\* a specific year was selected on a sheet with a row of that year and a row
\* whose year is unparsable
UnparsableYearFilteredOut ==
    /\ pc = "revenue_filter"
    /\ year_option.label = "2024"
    /\ Len(df) = 1
    /\ \E i \in 1..Len(uploaded_file) : uploaded_file[i].Year.kind = "text"

----------------------------------------------------------------------------
(* Properties of the classification and the location distribution          *)
(* (SpecLocations).                                                        *)

\* the script has run the section that is followed by `section`
Past(section) ==
    LET order == <<"read", "normalize", "year_filter", "revenue_filter", "fault_filter",
                   "split", "summary", "pie", "heatmap", "top5", "done">>
    IN  IndexOf(pc, order) >= IndexOf(section, order)

RECURSIVE SumOfCounts(_)
\* the sum of the Count column
SumOfCounts(table) ==
    IF table = <<>> THEN 0 ELSE Head(table).Count + SumOfCounts(Tail(table))

\* C1: the split is an exact partition of the filtered frame: a row is a false
\* alarm exactly when its comment is empty and an actual fault otherwise, the
\* two frames share no row, together they hold every row of the frame as often
\* as the frame does, and the two counts add up to the total.
SplitIsAPartition ==
    Past("summary") =>
        /\ \A row \in Range(df) :
               /\ isna(row.Comment) <=> row \in Range(df_false)
               /\ ~isna(row.Comment) <=> row \in Range(df_actual)
        /\ Range(df_false) \cap Range(df_actual) = {}
        /\ IsSubsequence(df_false, df)
        /\ IsSubsequence(df_actual, df)
        /\ \A row \in Range(df) \cup Range(df_false) \cup Range(df_actual) :
               Occurrences(row, df_false) + Occurrences(row, df_actual) = Occurrences(row, df)
        /\ false_count = Len(df_false)
        /\ actual_count = Len(df_actual)
        /\ total_reports = Len(df)
        /\ false_count + actual_count = total_reports

\* a frame that holds false alarms and actual faults, one row of it twice
SplitOfAMixedFrame ==
    /\ pc = "summary"
    /\ false_count >= 1
    /\ actual_count >= 2
    /\ \E row \in Range(df) : Occurrences(row, df) >= 2
    /\ \E i \in 1..Len(df) : isna(df[i].GEALOC)

\* C10: the location distribution gives every location of an actual fault its
\* exact number of actual faults, whatever that number, has no location with
\* count 0, and its counts add up to actual_count: every actual fault is
\* counted under exactly one location.
EveryFaultCountedUnderItsLocation ==
    Past("heatmap") =>
        /\ \A cell \in Range(Column(df_actual, "GEALOC")) :
               Cardinality({i \in 1..Len(gealoc_counts) :
                               /\ <<gealoc_counts[i].GEALOC>> = cell
                               /\ gealoc_counts[i].Count = Occurrences(cell, Column(df_actual, "GEALOC"))}) = 1
        /\ \A i \in 1..Len(gealoc_counts) : gealoc_counts[i].Count > 0
        /\ SumOfCounts(gealoc_counts) = actual_count

\* the same, for the actual faults that have a location
EveryLocatedFaultCounted ==
    Past("heatmap") =>
        /\ \A cell \in Range(Column(df_actual, "GEALOC")) \ {NaN} :
               Cardinality({i \in 1..Len(gealoc_counts) :
                               /\ <<gealoc_counts[i].GEALOC>> = cell
                               /\ gealoc_counts[i].Count = Occurrences(cell, Column(df_actual, "GEALOC"))}) = 1
        /\ \A i \in 1..Len(gealoc_counts) :
               /\ gealoc_counts[i].Count > 0
               /\ <<gealoc_counts[i].GEALOC>> \in Range(Column(df_actual, "GEALOC"))
               /\ \A j \in 1..Len(gealoc_counts) :
                      gealoc_counts[j].GEALOC = gealoc_counts[i].GEALOC => j = i
        /\ SumOfCounts(gealoc_counts) =
               actual_count - Occurrences(NaN, Column(df_actual, "GEALOC"))

----------------------------------------------------------------------------
(* Properties of the co-occurrence table (SpecPairs).                      *)

\* the (GEALOC, Comment) cells of the actual faults, row by row
PairCells == [i \in 1..Len(df_actual) |-> <<df_actual[i].GEALOC, df_actual[i].Comment>>]

\* the rows of the pivot that stand for the pair of cells
PivotRowsOf(cells) ==
    {i \in 1..Len(pivot) : <<pivot[i].GEALOC>> = cells[1] /\ <<pivot[i].Comment>> = cells[2]}

\* C5: the co-occurrence table holds exactly the (location, cause) pairs that
\* occur at least 5 times among the actual faults, each once and with its
\* number of occurrences: no pair below 5 is in it, none at 5 or above is
\* missing.
PivotHoldsExactlyTheSupportedPairs ==
    Past("top5") =>
        /\ \A cells \in Range(PairCells) :
               Cardinality(PivotRowsOf(cells)) =
                   IF Occurrences(cells, PairCells) >= 5 THEN 1 ELSE 0
        /\ \A i \in 1..Len(pivot) :
               /\ pivot[i].Count >= 5
               /\ pivot[i].Count = Occurrences(<< <<pivot[i].GEALOC>>, <<pivot[i].Comment>> >>, PairCells)

\* the same, for the pairs whose location is not empty
PivotHoldsTheSupportedLocatedPairs ==
    Past("top5") =>
        /\ \A cells \in Range(PairCells) :
               Cardinality(PivotRowsOf(cells)) =
                   IF notna(cells[1]) /\ Occurrences(cells, PairCells) >= 5 THEN 1 ELSE 0
        /\ \A i \in 1..Len(pivot) :
               /\ pivot[i].Count >= 5
               /\ pivot[i].Count = Occurrences(<< <<pivot[i].GEALOC>>, <<pivot[i].Comment>> >>, PairCells)

----------------------------------------------------------------------------
(* Properties of the ranked causes (SpecCauses).                           *)

\* the causes of the actual faults, row by row
Causes == Column(df_actual, "Comment")

\* C6: the ranked causes are in non-increasing order of count, hold every
\* cause of an actual fault exactly once with its number of occurrences and no
\* other cause, and the top 5 are their first min(5, length) rows.
RankedCausesAreSortedAndComplete ==
    Past("done") =>
        /\ \A i \in 1..(Len(cause_counts) - 1) : cause_counts[i].Count >= cause_counts[i + 1].Count
        /\ \A cell \in Range(Causes) :
               Cardinality({i \in 1..Len(cause_counts) : <<cause_counts[i].Cause>> = cell}) = 1
        /\ \A i \in 1..Len(cause_counts) :
               /\ <<cause_counts[i].Cause>> \in Range(Causes)
               /\ cause_counts[i].Count = Occurrences(<<cause_counts[i].Cause>>, Causes)
        /\ Len(top5_causes) = (IF Len(cause_counts) < 5 THEN Len(cause_counts) ELSE 5)
        /\ \A i \in 1..Len(top5_causes) : top5_causes[i] = cause_counts[i]

\* more causes than the top 5 holds
SixCausesRanked ==
    /\ pc = "done"
    /\ Len(cause_counts) = 6
    /\ Len(top5_causes) = 5

\* C8: causes of equal count are ranked in the order of their first
\* occurrence among the actual faults.
TiesInOrderOfFirstOccurrence ==
    Past("done") =>
        \A i \in 1..Len(cause_counts), j \in 1..Len(cause_counts) :
            (i < j /\ cause_counts[i].Count = cause_counts[j].Count) =>
                IndexOf(<<cause_counts[i].Cause>>, Causes) < IndexOf(<<cause_counts[j].Cause>>, Causes)

\* C8, amended: causes of equal count stand next to each other in the ranking,
\* in the order the sort leaves them in, which need not be the order of first
\* occurrence.
TiesAreAdjacent ==
    Past("done") =>
        \A i \in 1..Len(cause_counts), j \in 1..Len(cause_counts), k \in 1..Len(cause_counts) :
            (i < k /\ k < j /\ cause_counts[i].Count = cause_counts[j].Count) =>
                cause_counts[k].Count = cause_counts[i].Count

\* two causes of equal count ranked against the order of their first
\* occurrence, below a cause of a larger count
TieRankedAgainstFirstOccurrence ==
    /\ pc = "done"
    /\ \E i \in 1..Len(cause_counts), j \in 1..Len(cause_counts) :
           /\ 1 < i
           /\ i < j
           /\ cause_counts[i].Count = cause_counts[j].Count
           /\ cause_counts[1].Count > cause_counts[i].Count
           /\ IndexOf(<<cause_counts[i].Cause>>, Causes) > IndexOf(<<cause_counts[j].Cause>>, Causes)

----------------------------------------------------------------------------
(* Properties of the summary table (SpecSummary).                          *)

\* C4: the two percentages of the summary add up to exactly 100.00% when
\* there are reports, and are both 0.00% when there are none.
PercentagesAddUpTo100 ==
    Past("pie") =>
        IF total_reports > 0
        THEN summary_data.False_Alarm_pct + summary_data.Actual_Fault_pct = 10000
        ELSE summary_data.False_Alarm_pct = 0 /\ summary_data.Actual_Fault_pct = 0

\* What holds instead: the two percentages add up to exactly 100.00% when the number
\* of reports is not a multiple of 160; when it is, each percentage can lie
\* halfway between two hundredths and the two add up to 99.99%, 100.00% or
\* 100.01%.  Both are 0.00% when there are no reports.
PercentagesAddUpTo100OffMultiplesOf160 ==
    Past("pie") =>
        /\ total_reports = 0 =>
               summary_data.False_Alarm_pct = 0 /\ summary_data.Actual_Fault_pct = 0
        /\ (total_reports > 0 /\ total_reports % 160 # 0) =>
               summary_data.False_Alarm_pct + summary_data.Actual_Fault_pct = 10000
        /\ (total_reports > 0 /\ total_reports % 160 = 0) =>
               summary_data.False_Alarm_pct + summary_data.Actual_Fault_pct \in {9999, 10000, 10001}

----------------------------------------------------------------------------
(* Properties of a session (Spec).                                         *)

\* what one run computes from the sheet and the two selections
Analysis(sheet, year, revenue, order) ==
    LET frame   == FaultCodeFilter(RevenueFilter(YearFilter(
                       NormalizeYearColumn(read_excel(sheet)), year), revenue))
        falses  == FalseAlarms(frame)
        actuals == ActualFaults(frame)
        ranked  == CauseCounts(actuals, order.Comment)
    IN  <<frame, Len(frame), falses, actuals, Len(falses), Len(actuals),
          SummaryData(Len(frame), Len(falses), Len(actuals)),
          GealocCounts(actuals, order.GEALOC), Pivot(actuals), HeatmapData(Pivot(actuals)),
          ranked, head(ranked, TopN)>>

\* C9: no step of any run changes the uploaded sheet, and what a finished run
\* has computed depends on the sheet and on the selections of that run only,
\* whatever runs came before it.
RunsLeaveTheSheetAndDependOnTheirSelections ==
    [][/\ uploaded_file' = uploaded_file
       /\ pc' = "done" =>
              outputs' = Analysis(uploaded_file', year_option', revenue_option', tie_break')]_vars

\* a run finished after the year and the revenue hours were both changed, and
\* its filters kept one of two rows
ThirdRunFinished ==
    /\ pc = "done"
    /\ year_option.label # "Total"
    /\ revenue_option # "Total"
    /\ Len(uploaded_file) = 2
    /\ total_reports = 1

====
